---- MODULE Spec2Model ----
(***************************************************************************)
(* Model of mobingi/session/session.go: configuration resolution, the      *)
(* credential exchange of getAccessToken, the session returned by New and  *)
(* the endpoint helpers.                                                   *)
(*                                                                         *)
(* Go values are represented as follows:                                   *)
(*   string            a TLA+ string                                       *)
(*   pointer           <<>> for nil, <<v>> for a pointer to v              *)
(*   interface{}       <<>> for a nil interface, <<v>> for one holding v   *)
(*   error             <<>> for nil; otherwise the chain of messages that  *)
(*                     errors.Wrap builds, outermost first (Error() joins  *)
(*                     them with ": ")                                     *)
(*   url.Values / JSON object: a set of <<key, value>> pairs               *)
(***************************************************************************)
EXTENDS Integers, Sequences, FiniteSets, TLC

VARIABLES
    env,       \* the process environment read by os.Getenv
    pc,        \* position of the caller: start, resolved, sent, returned, literal
    cnf,       \* the variadic argument of New
    c,         \* the Config that c / s.Config point to
    session,   \* the *Session: <<>> before it exists, <<[AccessToken |-> t]>> after
    err,       \* the error returned by New
    request,   \* the token request handed to the network: <<>> or <<request>>
    resp,      \* the response the exchange received: <<>> or <<response>>
    endpoint   \* result of the last ApiEndpoint() call: <<>> or <<url>>

vars == <<env, pc, cnf, c, session, err, request, resp, endpoint>>

-----------------------------------------------------------------------------
(* Bounds of the model *)

\* cnf holds at most this many override objects
MaxOverrides == 2

\* override API versions range over -1 .. MaxApiVersion
MaxApiVersion == 1

-----------------------------------------------------------------------------
(* Constants of the program *)

BASE_API_URL == "https://api.mobingi.com"

BASE_REGISTRY_URL == "https://registry.mobingi.com"

SESHA3_URL == "https://sesha3.mobingi.com"

DefaultApiVersion == 3

Nil == <<>>

NoErr == <<>>

Ptr(v) == <<v>>

Deref(p) == p[1]

\* errors.Wrap(e, msg)
Wrap(e, msg) == <<msg>> \o e

\* errors.New(msg) / fmt.Errorf(msg)
NewError(msg) == <<msg>>

\* strings.Contains(e.Error(), msg) for a message of the chain
Mentions(e, msg) == \E i \in 1..Len(e) : e[i] = msg

-----------------------------------------------------------------------------
(* Inputs *)

\* a url.Parse failure ("missing protocol scheme") for any path appended to it
BadBaseUrl == ":bad"

EnvSet ==
    [ MOBINGI_CLIENT_ID     : {"", "env-id"},
      MOBINGI_CLIENT_SECRET : {"", "env-secret"},
      MOBINGI_USERNAME      : {"", "env-user"},
      MOBINGI_PASSWORD      : {"", "env-pass"} ]

GrantTypes == {"", "client_credentials", "password", "implicit"}

Versions == -1 .. MaxApiVersion

\* the zero value of Config
ZeroConfig ==
    [ ClientId |-> "", ClientSecret |-> "", GrantType |-> "", Scope |-> "",
      Username |-> "", Password |-> "", AccessToken |-> "", ApiVersion |-> 0,
      BaseApiUrl |-> "", BaseRegistryUrl |-> "", Sesha3Url |-> "",
      UseForm |-> FALSE, HttpClientConfig |-> Nil ]

\* override objects that vary every field of Config
AllConfigs ==
    [ ClientId         : {"", "id"},
      ClientSecret     : {"", "secret"},
      GrantType        : {"", "password"},
      Scope            : {"", "scope"},
      Username         : {"", "user"},
      Password         : {"", "pass"},
      AccessToken      : {"", "T"},
      ApiVersion       : Versions,
      BaseApiUrl       : {"", "http://api.test"},
      BaseRegistryUrl  : {"", "http://registry.test"},
      Sesha3Url        : {"", "http://sesha3.test"},
      UseForm          : BOOLEAN,
      HttpClientConfig : {Nil, Ptr("httpclient.Config")} ]

\* the number of fields of an override object that are set
FieldsSet(o) == Cardinality({ f \in DOMAIN o : o[f] /= ZeroConfig[f] })

\* override objects for configuration resolution: at most two fields set, or
\* at most one field left at its zero value
ResolveConfigs == { o \in AllConfigs : FieldsSet(o) <= 2 \/ FieldsSet(o) >= 12 }

\* override objects that vary the fields the credential exchange branches on
\* (the other credentials come from the environment)
ExchangeConfigs ==
    { [ZeroConfig EXCEPT !.GrantType = r.GrantType, !.Scope = r.Scope,
                         !.Username = r.Username, !.AccessToken = r.AccessToken, !.ApiVersion = r.ApiVersion,
                         !.BaseApiUrl = r.BaseApiUrl, !.UseForm = r.UseForm] :
      r \in [ GrantType   : GrantTypes,
              Scope       : {"", "scope"},
              Username    : {"", "user"},
              AccessToken : {"", "T"},
              ApiVersion  : {0, -1},
              BaseApiUrl  : {"", BadBaseUrl},
              UseForm     : BOOLEAN ] }

\* override objects that vary the fields the endpoint helpers read
EndpointConfigs ==
    { [ZeroConfig EXCEPT !.ApiVersion = r.ApiVersion, !.BaseApiUrl = r.BaseApiUrl,
                         !.AccessToken = r.AccessToken, !.UseForm = r.UseForm,
                         !.Username = r.Username] :
      r \in [ ApiVersion  : Versions,
              BaseApiUrl  : {"", "http://api.test", BadBaseUrl},
              AccessToken : {"", "T"},
              Username    : {"", "user"},
              UseForm     : BOOLEAN ] }

\* override objects passed after the first one
ExtraConfigs ==
    { [ ClientId |-> "id2", ClientSecret |-> "secret2", GrantType |-> "client_credentials",
        Scope |-> "scope2", Username |-> "user2", Password |-> "pass2",
        AccessToken |-> "T2", ApiVersion |-> 2, BaseApiUrl |-> "http://api2.test",
        BaseRegistryUrl |-> "http://registry2.test", Sesha3Url |-> "http://sesha32.test",
        UseForm |-> TRUE, HttpClientConfig |-> Ptr("httpclient.Config2") ] }

RECURSIVE Extras(_)
\* the argument lists of at most n further pointers
Extras(n) ==
    IF n <= 0 THEN {<<>>}
    ELSE {<<>>} \cup { <<p>> \o t : p \in {Nil} \cup {Ptr(x) : x \in ExtraConfigs},
                                    t \in Extras(n - 1) }

\* New(), New(nil, ...), New(&o, ...)
ArgsOver(configs) ==
    {<<>>} \cup { <<p>> \o t : p \in {Nil} \cup {Ptr(o) : o \in configs},
                              t \in Extras(MaxOverrides - 1) }

\* New(), New(nil), New(&o)
ArgsOne(configs) == {<<>>, <<Nil>>} \cup { <<Ptr(o)>> : o \in configs }

ExchangeArgs == ArgsOne(ExchangeConfigs)

ResolveArgs == ArgsOver(ResolveConfigs)

EndpointArgs == ArgsOne(EndpointConfigs)

-----------------------------------------------------------------------------
(* Configuration resolution: New, lines 237-303 *)

\* c := &Config{...} from the environment and the package constants
DefaultConfig(e) ==
    [ ClientId         |-> e.MOBINGI_CLIENT_ID,
      ClientSecret     |-> e.MOBINGI_CLIENT_SECRET,
      GrantType        |-> "",
      Scope            |-> "",
      Username         |-> e.MOBINGI_USERNAME,
      Password         |-> e.MOBINGI_PASSWORD,
      AccessToken      |-> "",
      ApiVersion       |-> DefaultApiVersion,
      BaseApiUrl       |-> BASE_API_URL,
      BaseRegistryUrl  |-> BASE_REGISTRY_URL,
      Sesha3Url        |-> SESHA3_URL,
      UseForm          |-> FALSE,
      HttpClientConfig |-> Nil ]

\* if cnf[0].F != "" { c.F = cnf[0].F }
OverrideString(cur, v) == IF v /= "" THEN v ELSE cur

\* OverrideInt with the guard v > 0
OverrideIntStrict(cur, v) == IF v > 0 THEN v ELSE cur

\* if cnf[0].ApiVersion != 0 { c.ApiVersion = cnf[0].ApiVersion }
OverrideInt(cur, v) == IF v /= 0 THEN v ELSE cur

\* if cnf[0].UseForm { c.UseForm = cnf[0].UseForm }
OverrideBool(cur, v) == IF v THEN v ELSE cur

\* if cnf[0].HttpClientConfig != nil { c.HttpClientConfig = cnf[0].HttpClientConfig }
OverridePtr(cur, v) == IF v /= Nil THEN v ELSE cur

\* the thirteen guarded assignments
Overlay(d, o) ==
    [ ClientId         |-> OverrideString(d.ClientId, o.ClientId),
      ClientSecret     |-> OverrideString(d.ClientSecret, o.ClientSecret),
      AccessToken      |-> OverrideString(d.AccessToken, o.AccessToken),
      GrantType        |-> OverrideString(d.GrantType, o.GrantType),
      Scope            |-> OverrideString(d.Scope, o.Scope),
      Username         |-> OverrideString(d.Username, o.Username),
      Password         |-> OverrideString(d.Password, o.Password),
      ApiVersion       |-> OverrideInt(d.ApiVersion, o.ApiVersion),
      BaseApiUrl       |-> OverrideString(d.BaseApiUrl, o.BaseApiUrl),
      BaseRegistryUrl  |-> OverrideString(d.BaseRegistryUrl, o.BaseRegistryUrl),
      Sesha3Url        |-> OverrideString(d.Sesha3Url, o.Sesha3Url),
      UseForm          |-> OverrideBool(d.UseForm, o.UseForm),
      HttpClientConfig |-> OverridePtr(d.HttpClientConfig, o.HttpClientConfig) ]

ResolveConfig(e, args) ==
    IF Len(args) > 0 /\ args[1] /= Nil
    THEN Overlay(DefaultConfig(e), Deref(args[1]))
    ELSE DefaultConfig(e)

-----------------------------------------------------------------------------
(* Session facade: lines 84-104 *)

Digit(d) == CASE d = 0 -> "0" [] d = 1 -> "1" [] d = 2 -> "2" [] d = 3 -> "3"
              [] d = 4 -> "4" [] d = 5 -> "5" [] d = 6 -> "6" [] d = 7 -> "7"
              [] d = 8 -> "8" [] d = 9 -> "9"

RECURSIVE Decimal(_)
Decimal(n) == IF n < 10 THEN Digit(n) ELSE Decimal(n \div 10) \o Digit(n % 10)

\* the %d verb
FmtInt(n) == IF n < 0 THEN "-" \o Decimal(-n) ELSE Decimal(n)

\* ApiEndpoint with the guard ApiVersion > 0
ApiEndpointPositive(cfg) ==
    IF cfg.ApiVersion > 0
    THEN cfg.BaseApiUrl \o "/v" \o FmtInt(cfg.ApiVersion)
    ELSE cfg.BaseApiUrl

\* func (s *Session) ApiEndpoint() string
ApiEndpoint(cfg) ==
    IF cfg.ApiVersion > -1
    THEN cfg.BaseApiUrl \o "/v" \o FmtInt(cfg.ApiVersion)
    ELSE cfg.BaseApiUrl

\* func (s *Session) RegistryEndpoint() string
RegistryEndpoint(cfg) == cfg.BaseRegistryUrl \o "/v2"

\* func (s *Session) Sesha3Endpoint() string
Sesha3Endpoint(cfg) == cfg.Sesha3Url

-----------------------------------------------------------------------------
(* Credential exchange, request side: getAccessToken, lines 116-217 *)

\* accessTokenUrl := s.ApiEndpoint() + "/access_token"
AccessTokenUrl(cfg) == ApiEndpoint(cfg) \o "/access_token"

\* if s.Config.Scope == "" { s.Config.Scope = "openid" }
DefaultScope(cfg) == IF cfg.Scope = "" THEN [cfg EXCEPT !.Scope = "openid"] ELSE cfg

\* url.Parse inside http.NewRequest: a first segment that starts with a colon
\* has no protocol scheme
ValidUrl(u) == SubSeq(u, 1, 1) /= ":"

UrlError == NewError("parse: missing protocol scheme")

\* form := url.Values{} and the two form.Add blocks
FormValues(cfg) ==
    (IF cfg.GrantType = "client_credentials"
     THEN { <<"client_id", cfg.ClientId>>, <<"client_secret", cfg.ClientSecret>>,
            <<"grant_type", cfg.GrantType>>, <<"scope", cfg.Scope>> }
     ELSE {})
    \cup
    (IF cfg.GrantType = "password"
     THEN { <<"client_id", cfg.ClientId>>, <<"client_secret", cfg.ClientSecret>>,
            <<"grant_type", cfg.GrantType>>, <<"scope", cfg.Scope>>,
            <<"username", cfg.Username>>, <<"password", cfg.Password>> }
     ELSE {})

\* &authPayload{...} with the fields a literal leaves out at their zero value
Payload(id, secret, grant, scope, username, password) ==
    [ ClientId |-> id, ClientSecret |-> secret, GrantType |-> grant,
      Scope |-> scope, Username |-> username, Password |-> password ]

\* the two blocks on an explicit grant type; p stays nil for any other value
ExplicitPayload(cfg) ==
    IF cfg.GrantType = "password"
    THEN Ptr(Payload(cfg.ClientId, cfg.ClientSecret, "password", cfg.Scope,
                     Ptr(cfg.Username), Ptr(cfg.Password)))
    ELSE IF cfg.GrantType = "client_credentials"
    THEN Ptr(Payload(cfg.ClientId, cfg.ClientSecret, "client_credentials", cfg.Scope,
                     Nil, Nil))
    ELSE Nil

\* InferredPayload with the grant type determined from Password
InferredPayloadByPassword(cfg) ==
    IF cfg.Password /= ""
    THEN IF cfg.Username = ""
         THEN [ err |-> NewError("username cannot be empty"), p |-> Nil ]
         ELSE [ err |-> NoErr,
                p   |-> Ptr(Payload(cfg.ClientId, cfg.ClientSecret, "password", "",
                                    Ptr(cfg.Username), Ptr(cfg.Password))) ]
    ELSE [ err |-> NoErr,
           p   |-> Ptr(Payload(cfg.ClientId, cfg.ClientSecret, "client_credentials", "",
                               Nil, Nil)) ]

\* if p == nil { ... }: the grant type determined from Username
InferredPayload(cfg) ==
    IF cfg.Username /= ""
    THEN IF cfg.Password = ""
         THEN [ err |-> NewError("password cannot be empty"), p |-> Nil ]
         ELSE [ err |-> NoErr,
                p   |-> Ptr(Payload(cfg.ClientId, cfg.ClientSecret, "password", "",
                                    Ptr(cfg.Username), Ptr(cfg.Password))) ]
    ELSE [ err |-> NoErr,
           p   |-> Ptr(Payload(cfg.ClientId, cfg.ClientSecret, "client_credentials", "",
                               Nil, Nil)) ]

\* the payload of the JSON path, or the error that ends it
BuildPayload(cfg) ==
    IF ExplicitPayload(cfg) /= Nil
    THEN [ err |-> NoErr, p |-> ExplicitPayload(cfg) ]
    ELSE InferredPayload(cfg)

\* json.Marshal(p): a string field tagged omitempty is left out when empty, an
\* interface{} field when nil
Marshal(p) ==
    { <<"client_id", p.ClientId>>         : x \in IF p.ClientId /= "" THEN {1} ELSE {} } \cup
    { <<"client_secret", p.ClientSecret>> : x \in IF p.ClientSecret /= "" THEN {1} ELSE {} } \cup
    { <<"grant_type", p.GrantType>>       : x \in IF p.GrantType /= "" THEN {1} ELSE {} } \cup
    { <<"scope", p.Scope>>                : x \in IF p.Scope /= "" THEN {1} ELSE {} } \cup
    { <<"username", p.Username[1]>>       : x \in IF p.Username /= Nil THEN {1} ELSE {} } \cup
    { <<"password", p.Password[1]>>       : x \in IF p.Password /= Nil THEN {1} ELSE {} }

FormRequest(cfg) ==
    [ url |-> AccessTokenUrl(cfg), contentType |-> "application/x-www-form-urlencoded",
      data |-> FormValues(cfg), client |-> Nil ]

JsonRequest(cfg, p) ==
    [ url |-> AccessTokenUrl(cfg), contentType |-> "application/json",
      data |-> Marshal(p), client |-> cfg.HttpClientConfig ]

-----------------------------------------------------------------------------
(* Credential exchange, response side: getAccessToken, lines 219-235 *)

\* the values json.Unmarshal stores in a map[string]interface{}
JsonString(v) == [ type |-> "string", str |-> v ]

JsonNumber(n) == [ type |-> "float64", num |-> n ]

JsonNull == [ type |-> "nil" ]

JsonBool(b) == [ type |-> "bool", bool |-> b ]

\* an empty JSON array
JsonEmptyArray == [ type |-> "[]interface {}" ]

\* response bodies as read: not JSON, JSON that is no object, the JSON null,
\* and JSON objects
MalformedBody == [ kind |-> "malformed" ]

ArrayBody == [ kind |-> "array" ]

NullBody == [ kind |-> "null" ]

ObjectBody(members) == [ kind |-> "object", members |-> members ]

TokenValues ==
    { JsonString("X"), JsonString(""), JsonNumber(1), JsonNull, JsonBool(TRUE),
      JsonEmptyArray }

Bodies ==
    { MalformedBody, ArrayBody, NullBody,
      ObjectBody({ <<"token_type", JsonString("bearer")>> }) }
    \cup { ObjectBody({ <<"access_token", v>>, <<"token_type", JsonString("bearer")>> }) :
           v \in TokenValues }

StatusCodes == {200, 299, 300, 404}

\* the reason phrase of the status line
StatusText(code) ==
    CASE code = 200 -> "OK"
      [] code = 300 -> "Multiple Choices"
      [] code = 404 -> "Not Found"
      [] OTHER      -> ""

\* resp.Status, e.g. "404 Not Found"
StatusLine(code) == FmtInt(code) \o " " \o StatusText(code)

Response(code, body, readErr) ==
    [ StatusCode |-> code, Status |-> StatusLine(code), Body |-> body, ReadErr |-> readErr ]

\* resp, err = http.PostForm(...) with a nil error, then ioutil.ReadAll: the
\* response and the bytes read, with the read error that is never looked at
PostFormResult(code, body, readErr) == Response(code, body, readErr)

\* res, body, err = c.Do(r) with a nil error: the client hands back the
\* response it received and the bytes of its body
DoResult(code, body) == Response(code, body, FALSE)

\* StatusOK that also lets redirects through
StatusOKUpTo(code) == (code \div 100) \in {2, 3}

\* StatusOK that accepts 200 alone
StatusOKOnly200(code) == code = 200

\* (resp.StatusCode / 100) == 2
StatusOK(code) == (code \div 100) = 2

\* json.Unmarshal(body, &m) returns an error
UnmarshalFails(body) == body.kind \in {"malformed", "array"}

\* m after a successful json.Unmarshal: null leaves the map nil
Unmarshal(body) == IF body.kind = "object" THEN body.members ELSE {}

\* t, found := m[key]
Found(m, key) == \E kv \in m : kv[1] = key

Lookup(m, key) == (CHOOSE kv \in m : kv[1] = key)[2]

\* fmt.Sprintf("%s", t)
Sprintf(t) ==
    CASE t.type = "string"  -> t.str
      [] t.type = "float64" -> "%!s(float64=" \o FmtInt(t.num) \o ")"
      [] t.type = "nil"     -> "%!s(<nil>)"
      [] t.type = "bool"    -> IF t.bool THEN "%!s(bool=true)" ELSE "%!s(bool=false)"
      [] t.type = "[]interface {}" -> "[]"

\* ReadToken without the error for a missing access_token
ReadTokenLenient(r) ==
    IF ~StatusOK(r.StatusCode)
    THEN [ token |-> "", err |-> NewError(r.Status) ]
    ELSE IF UnmarshalFails(r.Body)
    THEN [ token |-> "", err |-> Wrap(NewError("json: cannot unmarshal"), "unmarshal failed") ]
    ELSE IF ~Found(Unmarshal(r.Body), "access_token")
    THEN [ token |-> "", err |-> NoErr ]
    ELSE [ token |-> Sprintf(Lookup(Unmarshal(r.Body), "access_token")), err |-> NoErr ]

\* the status check, the parse and the lookup: (token, err) of getAccessToken
ReadToken(r) ==
    IF ~StatusOK(r.StatusCode)
    THEN [ token |-> "", err |-> NewError(r.Status) ]
    ELSE IF UnmarshalFails(r.Body)
    THEN [ token |-> "", err |-> Wrap(NewError("json: cannot unmarshal"), "unmarshal failed") ]
    ELSE IF ~Found(Unmarshal(r.Body), "access_token")
    THEN [ token |-> "", err |-> NewError("cannot find access token") ]
    ELSE [ token |-> Sprintf(Lookup(Unmarshal(r.Body), "access_token")), err |-> NoErr ]

-----------------------------------------------------------------------------
(* New, lines 305-318 *)

\* HasPresetToken that never takes the shortcut
HasPresetTokenNever(cfg) == FALSE

\* if c.AccessToken != ""
HasPresetToken(cfg) == cfg.AccessToken /= ""

\* NewReturn that returns the error of getAccessToken as it is
NewReturnUnwrapped(r) ==
    IF r.err /= NoErr
    THEN [ AccessToken |-> "", err |-> r.err ]
    ELSE [ AccessToken |-> r.token, err |-> NoErr ]

\* token, err := s.getAccessToken() and the two returns after it
NewReturn(r) ==
    IF r.err /= NoErr
    THEN [ AccessToken |-> "", err |-> Wrap(r.err, "get access token failed") ]
    ELSE [ AccessToken |-> r.token, err |-> NoErr ]

-----------------------------------------------------------------------------
(* State machine *)

Init ==
    /\ env \in EnvSet
    /\ pc = "start"
    /\ cnf = <<>>
    /\ c = ZeroConfig
    /\ session = Nil
    /\ err = NoErr
    /\ request = Nil
    /\ resp = Nil
    /\ endpoint = Nil

\* New is called with args: the config is resolved (lines 237-303)
NewResolve(args) ==
    /\ pc = "start"
    /\ cnf' = args
    /\ c' = ResolveConfig(env, args)
    /\ pc' = "resolved"
    /\ UNCHANGED <<env, session, err, request, resp, endpoint>>

\* New adopts the pre-set access token and returns (lines 305-309)
NewPreset ==
    /\ pc = "resolved"
    /\ HasPresetToken(c)
    /\ session' = Ptr([ AccessToken |-> c.AccessToken ])
    /\ err' = NoErr
    /\ pc' = "returned"
    /\ UNCHANGED <<env, cnf, c, request, resp, endpoint>>

\* New returns with the outcome r of getAccessToken
Return(r) ==
    /\ session' = Ptr([ AccessToken |-> NewReturn(r).AccessToken ])
    /\ err' = NewReturn(r).err
    /\ pc' = "returned"

\* New calls getAccessToken on the form path, up to http.PostForm (lines 116-146)
GetAccessTokenForm ==
    /\ pc = "resolved"
    /\ ~HasPresetToken(c)
    /\ DefaultScope(c).UseForm
    /\ c' = DefaultScope(c)
    /\ IF ValidUrl(AccessTokenUrl(c'))
       THEN /\ request' = Ptr(FormRequest(c'))
            /\ session' = Ptr([ AccessToken |-> "" ])
            /\ pc' = "sent"
            /\ UNCHANGED err
       ELSE /\ Return([ token |-> "", err |-> Wrap(UrlError, "do failed") ])
            /\ UNCHANGED request
    /\ UNCHANGED <<env, cnf, resp, endpoint>>

\* New calls getAccessToken on the JSON path, up to c.Do (lines 116-126, 153-211)
GetAccessTokenJson ==
    /\ pc = "resolved"
    /\ ~HasPresetToken(c)
    /\ ~DefaultScope(c).UseForm
    /\ c' = DefaultScope(c)
    /\ IF BuildPayload(c').err /= NoErr
       THEN /\ Return([ token |-> "", err |-> BuildPayload(c').err ])
            /\ UNCHANGED request
       ELSE IF ~ValidUrl(AccessTokenUrl(c'))
       THEN /\ Return([ token |-> "", err |-> Wrap(UrlError, "new request failed") ])
            /\ UNCHANGED request
       ELSE /\ request' = Ptr(JsonRequest(c', Deref(BuildPayload(c').p)))
            /\ session' = Ptr([ AccessToken |-> "" ])
            /\ pc' = "sent"
            /\ UNCHANGED err
    /\ UNCHANGED <<env, cnf, resp, endpoint>>

\* http.PostForm or c.Do returns an error; getAccessToken and New return
\* (lines 147-149, 212-214, 311-314)
DoFailed ==
    /\ pc = "sent"
    /\ Return([ token |-> "", err |-> Wrap(NewError("dial tcp: connection refused"), "do failed") ])
    /\ UNCHANGED <<env, cnf, c, request, resp, endpoint>>

\* the endpoint answers; getAccessToken reads the token and New returns
\* (lines 151-152, 216-235, 311-317).  On the form path the error of
\* ioutil.ReadAll is assigned and never looked at.
Respond(code, body, readErr) ==
    /\ pc = "sent"
    /\ readErr => Deref(request).contentType /= "application/json"
    /\ resp' = IF Deref(request).contentType = "application/json"
               THEN Ptr(DoResult(code, body))
               ELSE Ptr(PostFormResult(code, body, readErr))
    /\ Return(ReadToken(Deref(resp')))
    /\ UNCHANGED <<env, cnf, c, request, endpoint>>

\* a caller builds &Session{Config: cfg, AccessToken: token} itself (lines 84-87)
SessionLiteral(cfg, token) ==
    /\ pc = "start"
    /\ c' = cfg
    /\ session' = Ptr([ AccessToken |-> token ])
    /\ pc' = "literal"
    /\ UNCHANGED <<env, cnf, err, request, resp, endpoint>>

\* a caller calls s.ApiEndpoint() on a session it holds (lines 89-96)
CallApiEndpoint ==
    /\ pc \in {"returned", "literal"}
    /\ endpoint = Nil
    /\ endpoint' = Ptr(ApiEndpoint(c))
    /\ UNCHANGED <<env, pc, cnf, c, session, err, request, resp>>

Exchange ==
    \/ NewPreset
    \/ GetAccessTokenForm
    \/ GetAccessTokenJson
    \/ DoFailed
    \/ \E code \in StatusCodes, body \in Bodies, readErr \in BOOLEAN :
          Respond(code, body, readErr)

\* session construction and the credential exchange
Next ==
    \/ \E args \in ExchangeArgs : NewResolve(args)
    \/ Exchange

Spec == Init /\ [][Next]_vars

\* configuration resolution over every field and every argument list
NextResolve == \E args \in ResolveArgs : NewResolve(args)

SpecResolve == Init /\ [][NextResolve]_vars

\* the endpoint helper on sessions built by New and by hand, and the token URL
NextEndpoint ==
    \/ \E args \in EndpointArgs : NewResolve(args)
    \/ NewPreset
    \/ GetAccessTokenForm
    \/ GetAccessTokenJson
    \/ DoFailed
    \/ \E cfg \in EndpointConfigs, token \in {"", "T"} : SessionLiteral(cfg, token)
    \/ CallApiEndpoint

SpecEndpoint == Init /\ [][NextEndpoint]_vars

-----------------------------------------------------------------------------
(* Properties *)

Returned == pc = "returned"

\* s.AccessToken of the session New returned
Token == Deref(session).AccessToken

\* the first override object, if the caller passed a non-nil one
HasOverride == Len(cnf) > 0 /\ cnf[1] /= Nil

Override == Deref(cnf[1])

Is2xx(code) == code >= 200 /\ code <= 299

Explicit(g) == g \in {"client_credentials", "password"}

\* the keys of a form or of a JSON object
Keys(data) == { kv[1] : kv \in data }

\* C1: whenever the resolved config holds a non-empty access token T, New
\* returns a nil error and a session whose AccessToken is T, and no request
\* reaches the token endpoint during that construction, whatever the other
\* fields of the config are.
C1_PresetTokenSkipsExchange ==
    (pc \in {"resolved", "sent", "returned"} /\ c.AccessToken /= "")
        => /\ request = Nil
           /\ resp = Nil
           /\ pc /= "sent"
           /\ Returned => (err = NoErr /\ session = Ptr([ AccessToken |-> c.AccessToken ]))

C1_Witness ==
    /\ Returned
    /\ c.AccessToken = "T"
    /\ c.UseForm
    /\ c.GrantType = "password"
    /\ c.Username /= ""
    /\ c.Password = ""
    /\ Token = "T"

\* C2: for every password grant config (explicit in GrantType or inferred from
\* Username, UseForm true or false) with a non-empty Username, an empty
\* Password and no pre-set access token, New fails with an error mentioning
\* "password cannot be empty" and no request reaches the token endpoint
\* (stated for the configs whose token URL parses).
C2_EmptyPasswordRejected ==
    ( /\ pc \in {"sent", "returned"}
      /\ c.AccessToken = ""
      /\ c.BaseApiUrl /= BadBaseUrl
      /\ c.Username /= ""
      /\ c.Password = ""
      /\ c.GrantType /= "client_credentials" )
        => /\ request = Nil
           /\ Returned
           /\ Mentions(err, "password cannot be empty")

\* C3: for a client_credentials config without a pre-set access token, on the
\* form path and on the JSON path, a 2xx answer whose body is a JSON object
\* with the string X as access_token makes New return a nil error and a
\* session whose AccessToken is X.
C3_TokenAdopted ==
    ( /\ Returned
      /\ resp /= Nil
      /\ c.AccessToken = ""
      /\ c.GrantType = "client_credentials" \/ (~Explicit(c.GrantType) /\ c.Username = "")
      /\ Is2xx(Deref(resp).StatusCode)
      /\ Deref(resp).Body.kind = "object" )
        => \A kv \in Deref(resp).Body.members :
              (kv[1] = "access_token" /\ kv[2].type = "string")
                  => (err = NoErr /\ Token = kv[2].str)

C3_Witness ==
    /\ Returned
    /\ resp /= Nil
    /\ c.GrantType = "client_credentials"
    /\ c.UseForm
    /\ Deref(resp).StatusCode = 299
    /\ Deref(resp).Body.kind = "object"
    /\ <<"access_token", JsonString("X")>> \in Deref(resp).Body.members
    /\ Token = "X"
    /\ err = NoErr

\* C4: whenever the token endpoint answers with a status code outside
\* 200..299, on the form path and on the JSON path and whatever the body is,
\* New fails with an error that contains the response's status text, the body
\* is not parsed, and the session token stays empty.
C4_Non2xxFails ==
    (Returned /\ resp /= Nil /\ ~Is2xx(Deref(resp).StatusCode))
        => /\ err /= NoErr
           /\ Mentions(err, Deref(resp).Status)
           /\ ~Mentions(err, "unmarshal failed")
           /\ ~Mentions(err, "cannot find access token")
           /\ Token = ""

C4_Witness ==
    /\ Returned
    /\ resp /= Nil
    /\ Deref(resp).StatusCode = 404
    /\ Deref(resp).Body.kind = "object"
    /\ "access_token" \in Keys(Deref(resp).Body.members)
    /\ Mentions(err, "404 Not Found")
    /\ Token = ""

\* C5: a 2xx answer whose body is a JSON object without an access_token member
\* makes New fail with the error "cannot find access token", and the session
\* token is not set.
C5_MissingTokenFails ==
    ( /\ Returned
      /\ resp /= Nil
      /\ Is2xx(Deref(resp).StatusCode)
      /\ Deref(resp).Body.kind = "object"
      /\ "access_token" \notin Keys(Deref(resp).Body.members) )
        => /\ Mentions(err, "cannot find access token")
           /\ Token = ""

C5_Witness ==
    /\ Returned
    /\ resp /= Nil
    /\ Deref(resp).StatusCode = 200
    /\ Deref(resp).Body = ObjectBody({ <<"token_type", JsonString("bearer")>> })
    /\ Mentions(err, "cannot find access token")

\* the resolved config of this call, field by field: the first override's
\* field where it is set, the default otherwise
Expected(field, default) ==
    IF HasOverride /\ Override[field] /= ZeroConfig[field]
    THEN Override[field]
    ELSE default

ExpectedConfig ==
    [ ClientId         |-> Expected("ClientId", env.MOBINGI_CLIENT_ID),
      ClientSecret     |-> Expected("ClientSecret", env.MOBINGI_CLIENT_SECRET),
      GrantType        |-> Expected("GrantType", ""),
      Scope            |-> Expected("Scope", ""),
      Username         |-> Expected("Username", env.MOBINGI_USERNAME),
      Password         |-> Expected("Password", env.MOBINGI_PASSWORD),
      AccessToken      |-> Expected("AccessToken", ""),
      ApiVersion       |-> Expected("ApiVersion", 3),
      BaseApiUrl       |-> Expected("BaseApiUrl", "https://api.mobingi.com"),
      BaseRegistryUrl  |-> Expected("BaseRegistryUrl", "https://registry.mobingi.com"),
      Sesha3Url        |-> Expected("Sesha3Url", "https://sesha3.mobingi.com"),
      UseForm          |-> Expected("UseForm", FALSE),
      HttpClientConfig |-> Expected("HttpClientConfig", <<>>) ]

\* the resolved config after the exchange has defaulted its Scope in place
ExpectedAfterExchange ==
    [ ExpectedConfig EXCEPT !.Scope = IF @ = "" THEN "openid" ELSE @ ]

\* the credential exchange ran and did not produce a token
ExchangeFailed ==
    /\ c.AccessToken = ""
    /\ \/ request = Nil
       \/ resp = Nil
       \/ ~Is2xx(Deref(resp).StatusCode)
       \/ Deref(resp).Body.kind /= "object"
       \/ "access_token" \notin Keys(Deref(resp).Body.members)

\* C6 as stated: on every failure of the exchange New returns a non-nil
\* session whose Config is the resolved config (the object the exchange has
\* defaulted the Scope of) and whose AccessToken is empty, with an error wrapped
\* with "get access token failed"; New never returns a nil session; the token
\* is non-empty exactly when the error is nil.
C6_TokenIffNoError ==
    Returned =>
        /\ session /= Nil
        /\ ExchangeFailed =>
              /\ err /= NoErr
              /\ err[1] = "get access token failed"
              /\ Token = ""
              /\ c = ExpectedAfterExchange
        /\ (Token /= "") <=> (err = NoErr)

\* C6 as amended: on every failure of the exchange New returns a non-nil
\* session whose Config is the resolved config with its Scope defaulted to
\* "openid" when it was empty, and whose AccessToken is empty, with an error
\* wrapped with "get access token failed"; New never returns a nil session and
\* fails in no other case; a non-empty token comes only with a nil error, and a
\* nil error comes with an empty token only when the endpoint's access_token is
\* the empty string.
C6_FailureLeavesEmptyToken ==
    Returned =>
        /\ session /= Nil
        /\ ExchangeFailed =>
              /\ err /= NoErr
              /\ err[1] = "get access token failed"
              /\ Len(err) >= 2
              /\ Token = ""
              /\ c = ExpectedAfterExchange
        /\ ~ExchangeFailed => err = NoErr
        /\ (Token /= "") => (err = NoErr)
        /\ (err = NoErr /\ Token = "") =>
              /\ resp /= Nil
              /\ <<"access_token", JsonString("")>> \in Deref(resp).Body.members
        /\ (err = NoErr /\ c.AccessToken /= "") => (Token = c.AccessToken /\ c = ExpectedConfig)

C6_Witness ==
    /\ Returned
    /\ resp /= Nil
    /\ Deref(resp).StatusCode = 200
    /\ Deref(resp).Body.kind = "malformed"
    /\ ExpectedConfig.Scope = ""
    /\ c.Scope = "openid"
    /\ err = <<"get access token failed", "unmarshal failed", "json: cannot unmarshal">>
    /\ Token = ""

\* C7: after configuration resolution every field of the config equals the
\* first override object's field when that field is non-empty / non-zero /
\* true / non-nil and the default otherwise (the environment variable for the
\* four credentials, the three production URLs, version 3, empty GrantType,
\* Scope and AccessToken, false UseForm); an override ApiVersion of 0 leaves
\* the version at 3, a nil or absent first override yields the defaults, and
\* override objects after the first have no effect.
C7_ResolvedConfig ==
    pc = "resolved" =>
        /\ c = ExpectedConfig
        /\ (HasOverride /\ Override.ApiVersion = 0) => c.ApiVersion = 3
        /\ ~HasOverride =>
              c = [ ClientId |-> env.MOBINGI_CLIENT_ID,
                    ClientSecret |-> env.MOBINGI_CLIENT_SECRET,
                    GrantType |-> "", Scope |-> "",
                    Username |-> env.MOBINGI_USERNAME,
                    Password |-> env.MOBINGI_PASSWORD,
                    AccessToken |-> "", ApiVersion |-> 3,
                    BaseApiUrl |-> "https://api.mobingi.com",
                    BaseRegistryUrl |-> "https://registry.mobingi.com",
                    Sesha3Url |-> "https://sesha3.mobingi.com",
                    UseForm |-> FALSE, HttpClientConfig |-> <<>> ]

C7_Witness ==
    /\ pc = "resolved"
    /\ Len(cnf) = 2
    /\ cnf[1] /= Nil
    /\ cnf[2] /= Nil
    /\ Override.ApiVersion = -1
    /\ Override.ClientId = ""
    /\ Override.Password /= ""
    /\ env.MOBINGI_CLIENT_ID /= ""
    /\ env.MOBINGI_PASSWORD /= ""
    /\ c.ApiVersion = -1
    /\ c.ClientId = env.MOBINGI_CLIENT_ID
    /\ c.Password = Override.Password
    /\ c.Scope = ""

\* the endpoint the spec gives for a config
ExpectedEndpoint(cfg) ==
    IF cfg.ApiVersion >= 0
    THEN cfg.BaseApiUrl \o "/v" \o ToString(cfg.ApiVersion)
    ELSE cfg.BaseApiUrl

\* C8: ApiEndpoint returns BaseApiUrl + "/v" + ApiVersion for every session
\* whose ApiVersion is >= 0, 0 included, and BaseApiUrl unchanged for a
\* negative ApiVersion; the URL of every token request is that endpoint
\* followed by "/access_token".
C8_ApiEndpoint ==
    /\ endpoint /= Nil => Deref(endpoint) = ExpectedEndpoint(c)
    /\ request /= Nil => Deref(request).url = ExpectedEndpoint(c) \o "/access_token"

C8_Witness ==
    /\ Returned
    /\ request /= Nil
    /\ endpoint /= Nil
    /\ c.ApiVersion = -1
    /\ Deref(endpoint) = "http://api.test"
    /\ Deref(request).url = "http://api.test/access_token"

C10_RequestCarriesCredentials ==
    /\ (pc \in {"sent", "returned"} /\ c.AccessToken = "") => c.Scope /= ""
    /\ request /= Nil =>
          LET data == Deref(request).data
          IN  /\ c.ClientId /= "" => <<"client_id", c.ClientId>> \in data
              /\ c.ClientSecret /= "" => <<"client_secret", c.ClientSecret>> \in data
              /\ \E g \in {"client_credentials", "password"} : <<"grant_type", g>> \in data
              /\ c.Scope /= ""
              /\ <<"scope", c.Scope>> \in data

====
